---- MODULE Spec2Model ----
(***************************************************************************)
(* Model of the interactive conversation session of the ChatGPT plugin     *)
(* (src/main.ts): InteractiveChatModal (the two transcript views, the      *)
(* loading flag, the controls, export) and the streaming completion client *)
(* ChatGPTPlugin.callOpenAIWithHistoryStreaming (chunk decoding, line      *)
(* buffering, delta sink), and of the plugin around it: the commands        *)
(* askChatGPT and askChatGPTCustom with their guards, the single-shot       *)
(* client callOpenAI and its decoder, the usage log (recordUsage,           *)
(* calculateCost) and the reset button of the settings tab.                 *)
(*                                                                         *)
(* Text is a sequence of one-character strings.  A handleSend invocation   *)
(* is a process: it is suspended at each await of the source and resumed   *)
(* by a separate action, so that user events and other invocations         *)
(* interleave exactly where the event loop allows it.                      *)
(***************************************************************************)
EXTENDS Integers, Sequences, FiniteSets, TLC

\* ---------------------------------------------------------------- bounds
MaxInv == 2        \* handleSend invocations that may be suspended at once
MaxTurns == 2      \* handleSend invocations accepted in one behaviour
MaxLines == 2      \* event lines of a served stream (stream mode)

Slots == 1..MaxInv

\* ------------------------------------------------------------------ text
WS == {" ", "\n"}

RECURSIVE TrimLeft(_)
TrimLeft(s) == IF s # <<>> /\ Head(s) \in WS THEN TrimLeft(Tail(s)) ELSE s

RECURSIVE TrimRight(_)
TrimRight(s) ==
  IF s # <<>> /\ s[Len(s)] \in WS THEN TrimRight(SubSeq(s, 1, Len(s) - 1)) ELSE s

\* String.prototype.trim
Trim(s) == TrimRight(TrimLeft(s))

\* String.prototype.startsWith
StartsWith(s, p) == Len(s) >= Len(p) /\ SubSeq(s, 1, Len(p)) = p

\* Array.prototype.splice(start, count) with a 0-based start, removal only
Splice(s, start, count) ==
  LET lo == IF start > Len(s) THEN Len(s) ELSE start
      hi == IF lo + count > Len(s) THEN Len(s) ELSE lo + count
  IN  SubSeq(s, 1, lo) \o SubSeq(s, hi + 1, Len(s))

\* Array.prototype.pop (the array that is left)
Pop(s) == IF s = <<>> THEN s ELSE SubSeq(s, 1, Len(s) - 1)

RECURSIVE Concat(_)
Concat(ss) == IF ss = <<>> THEN <<>> ELSE Head(ss) \o Concat(Tail(ss))

\* --------------------------------------------------- session constants
SystemPrompt == <<"P">>
ContextHeader == <<"C", ":">>
SelectedTexts == { <<"s">> }
InputTexts == { <<"q">>, <<" ", "r", " ">> }

Msg(r, c) == [role |-> r, content |-> c]

\* ------------------------------------------------------ stream decoding
DataPrefix == <<"d", ":">>
EventPrefix == <<"e", ":">>
DoneLine == <<"d", ":", "[", "]">>
PayloadChars == {"a", "b"}

\* String.prototype.split('\n'): the fields between the separators
RECURSIVE SplitNL(_, _)
SplitNL(s, cur) ==
  IF s = <<>> THEN <<cur>>
  ELSE IF Head(s) = "\n" THEN <<cur>> \o SplitNL(Tail(s), <<>>)
  ELSE SplitNL(Tail(s), Append(cur, Head(s)))

\* JSON.parse of a frame body.  "{" "D" payload "}" is {delta: payload},
\* "{" "u" "}" is {usage: ...}, "{" "}" is a frame of another shape;
\* everything else is a syntax error.
ParseJson(s) ==
  LET inner == SubSeq(s, 2, Len(s) - 1)
      bad == [ok |-> FALSE, hasDelta |-> FALSE, delta |-> <<>>, hasUsage |-> FALSE]
  IN  IF Len(s) < 2 \/ s[1] # "{" \/ s[Len(s)] # "}" THEN bad
      ELSE IF inner = <<>>
             THEN [ok |-> TRUE, hasDelta |-> FALSE, delta |-> <<>>, hasUsage |-> FALSE]
      ELSE IF inner = <<"u">>
             THEN [ok |-> TRUE, hasDelta |-> FALSE, delta |-> <<>>, hasUsage |-> TRUE]
      ELSE IF inner[1] = "D" /\ \A k \in 2..Len(inner) : inner[k] \in PayloadChars
             THEN [ok |-> TRUE, hasDelta |-> TRUE, delta |-> Tail(inner), hasUsage |-> FALSE]
      ELSE bad

\* The body of the loop over the complete lines of one chunk: the frame a
\* line carries, or ok = FALSE when the line is skipped.
LineFrame(line) ==
  LET skip == [ok |-> FALSE, hasDelta |-> FALSE, delta |-> <<>>, hasUsage |-> FALSE]
  IN  IF Trim(line) = <<>> \/ Trim(line) = DoneLine THEN skip
      ELSE IF StartsWith(line, EventPrefix) THEN skip
      ELSE IF ~StartsWith(line, DataPrefix) THEN skip
      ELSE ParseJson(SubSeq(line, Len(DataPrefix) + 1, Len(line)))

\* The deltas of a sequence of complete lines, in line order
RECURSIVE LineDeltas(_)
LineDeltas(lines) ==
  IF lines = <<>> THEN <<>>
  ELSE (IF LineFrame(Head(lines)).hasDelta THEN <<LineFrame(Head(lines)).delta>> ELSE <<>>)
       \o LineDeltas(Tail(lines))

\* the frame body of a line reaches JSON.parse and raises there
FrameRaises(line) ==
  /\ Trim(line) # <<>> /\ Trim(line) # DoneLine
  /\ ~StartsWith(line, EventPrefix)
  /\ StartsWith(line, DataPrefix)
  /\ ~ParseJson(SubSeq(line, Len(DataPrefix) + 1, Len(line))).ok

\* variant: the exception of a frame body leaves the read loop
LineAborts_Rethrow(line) == FrameRaises(line)

\* 'catch (e) { }' around the frame body: no exception of a frame leaves the
\* read loop
LineAborts(line) == FALSE

LinesHaveUsage(lines) == \E k \in 1..Len(lines) : LineFrame(lines[k]).hasUsage

\* buffer += chunk; lines = buffer.split('\n'); buffer = lines.pop() || ''
ChunkLines(buffer, chunk) ==
  LET parts == SplitNL(buffer \o chunk, <<>>)
  IN  SubSeq(parts, 1, Len(parts) - 1)

\* variant: the unfinished last line is not kept for the next chunk
ChunkRest_Dropped(buffer, chunk) == <<>>

ChunkRest(buffer, chunk) ==
  LET parts == SplitNL(buffer \o chunk, <<>>)
  IN  parts[Len(parts)]

\* ----------------------------------------------------- served streams
StreamLines ==
  { <<"d", ":", "{", "D", "a", "}">>,     \* text-delta frame "a"
    <<"d", ":", "{", "D", "b", "}">>,     \* text-delta frame "b"
    <<"d", ":", "{", "u", "}">>,          \* usage frame
    <<"e", ":", "x">>,                    \* event: line
    <<>> }                                \* blank line

RECURSIVE LineSeqs(_)
LineSeqs(n) ==
  IF n = 0 THEN { <<>> }
  ELSE LineSeqs(n - 1) \cup
       { Append(ls, l) : ls \in { x \in LineSeqs(n - 1) : Len(x) = n - 1 }, l \in StreamLines }

RECURSIVE JoinNL(_)
JoinNL(ls) == IF ls = <<>> THEN <<>> ELSE Head(ls) \o <<"\n">> \o JoinNL(Tail(ls))

\* streams with a line that is not a frame the client knows, between two
\* text-delta frames: invalid JSON, and JSON of another shape
TolerantStreams ==
  { JoinNL(<< <<"d", ":", "{", "D", "a", "}">>, mid, <<"d", ":", "{", "D", "b", "}">> >>) :
      mid \in { <<"d", ":", "{", "D", "a">>, <<"d", ":", "{", "}">>, <<"x">> } }

SessionStreams == { JoinNL(<< <<"d", ":", "{", "D", "a", "}">> >>) }

\* the streams served to a session opened by askChatGPTCustom: one delta,
\* with and without a usage frame after it
PluginStreams ==
  { JoinNL(<< <<"d", ":", "{", "D", "a", "}">> >>),
    JoinNL(<< <<"d", ":", "{", "D", "a", "}">>, <<"d", ":", "{", "u", "}">> >>) }

\* the streams served when the rendering of the answer is followed: two
\* deltas; the last frame (a delta, or the usage frame) ends with a newline
\* or the server closes the stream right after it
RenderStreams ==
  { JoinNL(<< <<"d", ":", "{", "D", "a", "}">>, <<"d", ":", "{", "D", "b", "}">> >>),
    JoinNL(<< <<"d", ":", "{", "D", "a", "}">> >>) \o <<"d", ":", "{", "D", "b", "}">>,
    JoinNL(<< <<"d", ":", "{", "D", "a", "}">> >>) \o <<"d", ":", "{", "u", "}">> }

StreamsOf(m) ==
  IF m = "stream"
    THEN { JoinNL(ls) : ls \in LineSeqs(MaxLines) } \cup TolerantStreams
  ELSE IF m \in {"plugin", "usage"} THEN PluginStreams
  ELSE IF m = "render" THEN RenderStreams
  ELSE SessionStreams

TurnsOf(m) == IF m \in {"session", "live"} THEN MaxTurns ELSE 1

\* what the user types: one text when the session is opened by a command
\* or the rendering is followed
InputTextsOf(m) ==
  IF m \in {"plugin", "usage", "render", "live"} THEN { <<"q">> } ELSE InputTexts

\* the sizes of the next chunk the transport may deliver: any split of the
\* stream in stream mode; in session mode the whole rest or a cut inside the
\* first frame
ChunkSizes(m, rest) ==
  IF m = "stream" THEN 1..Len(rest) ELSE { k \in {4, Len(rest)} : 1 <= k /\ k <= Len(rest) }

\* whether the renderings that the sinks of one chunk start may be put into
\* the element before the next statement runs (TRUE) or after the await
\* (FALSE): both when the rendering is followed, at once otherwise
RenderLandings(m) == IF m = "render" THEN BOOLEAN ELSE {TRUE}

\* ------------------------------------------------------ usage accounting
\* a usage object of a response; a count of 0 stands for an absent field
NoUsage ==
  [ present |-> FALSE, prompt_tokens |-> 0, input_tokens |-> 0,
    completion_tokens |-> 0, output_tokens |-> 0 ]

\* the usage object of the response.completed frame of a stream
StreamUsage ==
  [ present |-> TRUE, prompt_tokens |-> 0, input_tokens |-> 7,
    completion_tokens |-> 0, output_tokens |-> 3 ]

\* a || b on numbers
OrElse(a, b) == IF a # 0 THEN a ELSE b

\* usage.prompt_tokens || usage.input_tokens || 0
PromptTokensOf(u) == OrElse(u.prompt_tokens, OrElse(u.input_tokens, 0))

\* usage.completion_tokens || usage.output_tokens || 0
CompletionTokensOf(u) == OrElse(u.completion_tokens, OrElse(u.output_tokens, 0))

\* the price table of calculateCost; a rate is in units of 0.05 USD per
\* 1,000,000 tokens (2.50 USD is 50 units), so that every rate is an integer
Pricing ==
  [ m \in { "gpt-5.2", "gpt-5.1", "gpt-5", "gpt-5-mini", "gpt-5-nano", "gpt-4o",
            "gpt-4o-mini", "gpt-4-turbo", "gpt-4", "gpt-3.5-turbo" } |->
      CASE m = "gpt-5.2"       -> [input |-> 35,  output |-> 140]
        [] m = "gpt-5.1"       -> [input |-> 25,  output |-> 100]
        [] m = "gpt-5"         -> [input |-> 20,  output |-> 80]
        [] m = "gpt-5-mini"    -> [input |-> 5,   output |-> 20]
        [] m = "gpt-5-nano"    -> [input |-> 2,   output |-> 8]
        [] m = "gpt-4o"        -> [input |-> 50,  output |-> 200]
        [] m = "gpt-4o-mini"   -> [input |-> 3,   output |-> 12]
        [] m = "gpt-4-turbo"   -> [input |-> 200, output |-> 600]
        [] m = "gpt-4"         -> [input |-> 600, output |-> 1200]
        [] m = "gpt-3.5-turbo" -> [input |-> 10,  output |-> 30] ]

\* variant: a model that is not in the table costs nothing
CalculateCost_NoFallback(m, promptTokens, completionTokens) ==
  IF m \in DOMAIN Pricing
    THEN promptTokens * Pricing[m].input + completionTokens * Pricing[m].output
    ELSE 0

\* ChatGPTPlugin.calculateCost; the result is in units of 0.05 USD per
\* 1,000,000 (12.50 USD is 250,000,000 units), computed exactly where the
\* source computes in floating point
CalculateCost(m, promptTokens, completionTokens) ==
  LET modelPricing == IF m \in DOMAIN Pricing THEN Pricing[m] ELSE Pricing["gpt-4o"]
  IN  promptTokens * modelPricing.input + completionTokens * modelPricing.output

\* the dates the clock goes through: year and month of new Date()
Calendar ==
  << [year |-> 2025, month |-> 11], [year |-> 2025, month |-> 12],
     [year |-> 2026, month |-> 11] >>

\* the record that recordUsage builds
UsageRecord(date, m, promptTokens, completionTokens) ==
  [ date |-> date, model |-> m, promptTokens |-> promptTokens,
    completionTokens |-> completionTokens,
    totalTokens |-> promptTokens + completionTokens,
    estimatedCost |-> CalculateCost(m, promptTokens, completionTokens) ]

\* the length of JSON.stringify of a string: the quotes, and two characters
\* for a line feed
RECURSIVE JsonStringLen(_)
JsonStringLen(s) ==
  IF s = <<>> THEN 2 ELSE (IF Head(s) = "\n" THEN 2 ELSE 1) + JsonStringLen(Tail(s))

RoleLen(r) == CASE r = "system" -> 6 [] r = "user" -> 4 [] r = "assistant" -> 9

\* the length of JSON.stringify(messages): [{"role":"r","content":"c"},...]
RECURSIVE JsonLenFrom(_, _)
JsonLenFrom(msgs, n) ==
  IF n > Len(msgs) THEN 0
  ELSE 20 + RoleLen(msgs[n].role) + 2 + JsonStringLen(msgs[n].content)
       + (IF n < Len(msgs) THEN 1 ELSE 0) + JsonLenFrom(msgs, n + 1)

JsonLen(msgs) == 2 + JsonLenFrom(msgs, 1)

\* variant: the estimate rounds down
Ceil4_Floor(n) == n \div 4

\* Math.ceil(n / 4)
Ceil4(n) == (n + 3) \div 4

\* the record written at the end of callOpenAIWithHistoryStreaming
StreamUsageRecord(date, m, usageData, msgs, fullText) ==
  IF usageData
    THEN UsageRecord(date, m, PromptTokensOf(StreamUsage), CompletionTokensOf(StreamUsage))
    ELSE UsageRecord(date, m, Ceil4(JsonLen(msgs)), Ceil4(Len(fullText)))

\* ------------------------------------------------- single-shot responses
MaxItems == 2      \* items of the output list of a response

OutputText(t) == [type |-> "output_text", text |-> t]
Refusal(t) == [type |-> "refusal", text |-> t]

\* the content lists of an output item
Contents ==
  { <<>>,
    << OutputText(<<"x", " ">>) >>,
    << OutputText(<<>>), OutputText(<<"y">>) >>,
    << Refusal(<<"x">>), OutputText(<<"y">>) >>,
    << OutputText(<<" ">>), OutputText(<<"y">>) >> }

\* the output items: messages, and the items of a web search
OutputItems ==
  { [type |-> "message", content |-> c] : c \in Contents }
  \cup { [type |-> "web_search_call", content |-> c] :
           c \in { <<>>, << OutputText(<<"z">>) >> } }

RECURSIVE OutputLists(_)
OutputLists(n) ==
  IF n = 0 THEN { <<>> }
  ELSE LET shorter == OutputLists(n - 1)
       IN  shorter \cup { Append(o, it) : o \in { l \in shorter : Len(l) = n - 1 },
                                          it \in OutputItems }

NoError == [present |-> FALSE, type |-> "", message |-> ""]

\* the error objects of the remote: an authorization problem and another
\* error, each with and without a message
RemoteErrors ==
  { [present |-> TRUE, type |-> "invalid_api_key", message |-> "Incorrect API key provided"],
    [present |-> TRUE, type |-> "invalid_api_key", message |-> ""],
    [present |-> TRUE, type |-> "rate_limit_exceeded", message |-> "Rate limit reached"],
    [present |-> TRUE, type |-> "rate_limit_exceeded", message |-> ""] }

\* the usage object of a single-shot response with a million tokens each way
BigUsage ==
  [ present |-> TRUE, prompt_tokens |-> 1000000, input_tokens |-> 0,
    completion_tokens |-> 1000000, output_tokens |-> 0 ]

Response(rejects, error, usage, output_text, output) ==
  [ rejects |-> rejects, error |-> error, usage |-> usage,
    output_text |-> output_text, output |-> output ]

\* requestUrl rejects
RejectedResponse == Response(TRUE, NoError, NoUsage, <<>>, <<>>)

ErrorResponses == { Response(FALSE, e, NoUsage, <<>>, <<>>) : e \in RemoteErrors }

\* responses of every shape the decoder distinguishes, without usage
ShapeResponses ==
  { Response(FALSE, NoError, NoUsage, t, o) :
      t \in { <<>>, <<" ", "t">>, <<" ">> }, o \in OutputLists(MaxItems) }

\* responses with and without usage, with and without text
UsageResponses ==
  { Response(FALSE, NoError, u, t, <<>>) :
      u \in { NoUsage, StreamUsage, BigUsage }, t \in { <<>>, <<" ", "t">> } }

\* the responses the remote serves to askChatGPT: every shape in call mode
ResponsesOf(m) ==
  IF m = "call"
    THEN { RejectedResponse } \cup ErrorResponses \cup ShapeResponses \cup UsageResponses
    ELSE { RejectedResponse }
         \cup { r \in UsageResponses : r.usage # BigUsage }
         \cup { r \in ErrorResponses : r.error.message = "Rate limit reached" }

\* the inner loop of the decoder: the first content item of type output_text
\* with a text, from position n on; <<>> when there is none
RECURSIVE FirstText(_, _)
FirstText(content, n) ==
  IF n > Len(content) THEN <<>>
  ELSE IF content[n].type = "output_text" /\ content[n].text # <<>>
    THEN << content[n].text >>
  ELSE FirstText(content, n + 1)

\* variant: the scan does not look at the type of an output item
ScanOutput_AnyItem(output, n) ==
  LET all == Concat([k \in 1..Len(output) |-> output[k].content])
  IN  FirstText(all, 1)

\* the outer loop of the decoder over data.output, from position n on
RECURSIVE ScanOutput(_, _)
ScanOutput(output, n) ==
  IF n > Len(output) THEN <<>>
  ELSE IF output[n].type = "message" /\ Len(output[n].content) > 0
            /\ FirstText(output[n].content, 1) # <<>>
    THEN FirstText(output[n].content, 1)
  ELSE ScanOutput(output, n + 1)

\* what a single-shot call ends with: the text it returns or the Error it
\* throws, and whether it called recordUsage before
Returned(t, rec) == [ok |-> TRUE, text |-> t, name |-> "", message |-> "", recorded |-> rec]
Thrown(msg, rec) == [ok |-> FALSE, text |-> <<>>, name |-> "Error", message |-> msg, recorded |-> rec]

\* ChatGPTPlugin.callOpenAI and callOpenAIWithHistory from the resolution of
\* requestUrl on
CallOpenAI(data) ==
  IF data.rejects THEN Thrown("Request failed", FALSE)
  ELSE IF data.error.present
    THEN Thrown(IF data.error.message # "" THEN data.error.message ELSE "OpenAI API Error",
                FALSE)
  ELSE IF data.output_text # <<>> THEN Returned(Trim(data.output_text), data.usage.present)
  ELSE IF Len(data.output) > 0 /\ ScanOutput(data.output, 1) # <<>>
    THEN Returned(Trim(ScanOutput(data.output, 1)[1]), data.usage.present)
  ELSE Thrown("No response from ChatGPT", data.usage.present)

\* ------------------------------------------------------------- the state
VARIABLES
  mode,               \* which inputs the environment draws: "session" or "stream"
  selectedText,       \* InteractiveChatModal.selectedText
  messages,           \* InteractiveChatModal.messages (wire view)
  displayMessages,    \* InteractiveChatModal.displayMessages (display view)
  inputValue,         \* inputEl.value
  isLoading,          \* InteractiveChatModal.isLoading
  sendBtnDisabled,    \* sendBtn.disabled
  insertBtnDisabled,  \* insertBtn.disabled
  inputDisabled,      \* inputEl.disabled
  closed,             \* the modal was closed (onClose emptied contentEl)
  notice,             \* the last Notice shown
  doc,                \* the blocks appended to the editor document
  cursor,             \* where the editor cursor is
  exportedFrom,       \* the display view that the last export rendered
  h,                  \* the handleSend invocations, by slot
  requests,           \* requests sent to the completion endpoint
  turns,              \* handleSend invocations accepted so far
  usageHistory,       \* settings.usageHistory
  model,              \* settings.model
  apiKey,             \* settings.apiKey
  now,                \* the position of the clock in Calendar
  viewMode,           \* the mode of the active markdown view
  readingModeInfo,    \* InteractiveChatModal.readingModeInfo?.wasInReadingMode
  sessions,           \* InteractiveChatModal objects constructed so far
  selection,          \* editor.getSelection()
  clipboard,          \* what navigator.clipboard.readText() settles with
  ask,                \* the askChatGPT / askChatGPTCustom invocation
  tab,                \* the settings tab: shown, and the month it captured
  savedUsage          \* the usage log in the data that saveData was last given

vars == << mode, selectedText, messages, displayMessages, inputValue, isLoading,
           sendBtnDisabled, insertBtnDisabled, inputDisabled, closed, notice,
           doc, cursor, exportedFrom, h, requests, turns, usageHistory, model,
           apiKey, now, viewMode, readingModeInfo, sessions, selection,
           clipboard, ask, tab, savedUsage >>

uiVars == << isLoading, sendBtnDisabled, insertBtnDisabled, inputDisabled >>
editorVars == << doc, cursor, exportedFrom >>
constVars == << mode, selectedText, model, apiKey, now, readingModeInfo,
               sessions, selection, clipboard, ask, tab >>

\* the response slot of an invocation that has none
NoResponse == Response(FALSE, NoError, NoUsage, <<>>, <<>>)

\* askChatGPT at rest; count is the number of its invocations so far
IdleAsk ==
  [ pc |-> "idle", text |-> <<>>, wasInReadingMode |-> FALSE, resp |-> NoResponse,
    count |-> 0 ]

HiddenTab == [shown |-> FALSE, currentMonth |-> 0, currentYear |-> 0]

FreeInv ==
  [ pc |-> "free", userInput |-> <<>>, idx |-> 0, rest |-> <<>>, whole |-> <<>>,
    buffer |-> <<>>, fullText |-> <<>>, usageData |-> FALSE, sinkDeltas |-> <<>>,
    preM |-> <<>>, preD |-> <<>>, overlapped |-> FALSE, partial |-> FALSE,
    errBody |-> [json |-> TRUE, message |-> ""], outcome |-> "none",
    retry |-> FALSE, failedLenM |-> 0, failedLenD |-> 0,
    contentEl |-> <<>>, rendering |-> <<>> ]

Active(i) == h[i].pc \in {"render", "fetch", "errbody", "read"}

\* InteractiveChatModal.constructor and onOpen
InitSession ==
  /\ selectedText \in SelectedTexts
  /\ messages = << Msg("system", SystemPrompt),
                   Msg("system", ContextHeader \o selectedText) >>
  /\ displayMessages = <<>>
  /\ inputValue = <<>>
  /\ isLoading = FALSE
  /\ sendBtnDisabled = FALSE
  /\ insertBtnDisabled = FALSE
  /\ inputDisabled = FALSE
  /\ closed = FALSE
  /\ notice = "None"
  /\ doc = <<>>
  /\ cursor = "user"
  /\ exportedFrom = <<>>
  /\ h = [i \in Slots |-> FreeInv]
  /\ requests = 0
  /\ turns = 0
  /\ sessions = 1
  /\ readingModeInfo = FALSE

\* DEFAULT_SETTINGS with an API key, an empty usage log, and the plugin at rest
InitSettings ==
  /\ usageHistory = <<>>
  /\ savedUsage = <<>>
  /\ model = "gpt-4o"
  /\ apiKey = "sk"
  /\ now = 1
  /\ viewMode = "source"
  /\ selection = <<"s">>
  /\ clipboard = [ok |-> TRUE, text |-> <<>>]
  /\ ask = IdleAsk
  /\ tab = HiddenTab

Init == mode = "session" /\ InitSession /\ InitSettings

InitStream == mode = "stream" /\ InitSession /\ InitSettings

InitRender == mode = "render" /\ InitSession /\ InitSettings

InitLive == mode = "live" /\ InitSession /\ InitSettings

\* InteractiveChatModal.setLoading
SetLoading(loading) ==
  /\ isLoading' = loading
  /\ sendBtnDisabled' = loading
  /\ insertBtnDisabled' = loading
  /\ inputDisabled' = loading

\* The user edits the textarea
TypeInput ==
  /\ ~closed
  /\ ~inputDisabled
  /\ \E v \in InputTextsOf(mode) : inputValue' = v
  /\ UNCHANGED << messages, displayMessages, closed, notice, h, requests, turns >>
  /\ UNCHANGED << uiVars, editorVars, constVars, usageHistory, savedUsage, viewMode >>

\* A finished invocation keeps only how it ended, whether it was a retry,
\* when it failed, the lengths of the two views before its submit, and when
\* it succeeded, the answer and its message element (the catch block removes
\* the element)
DoneInv(i, how) ==
  [FreeInv EXCEPT !.pc = "done", !.outcome = how, !.userInput = h[i].userInput,
                  !.overlapped = h[i].overlapped, !.retry = h[i].retry,
                  !.failedLenM = IF how = "failed" THEN Len(h[i].preM) ELSE 0,
                  !.failedLenD = IF how = "failed" THEN Len(h[i].preD) ELSE 0,
                  !.fullText = IF how = "ok" THEN h[i].fullText ELSE <<>>,
                  !.contentEl = IF how = "ok" THEN h[i].contentEl ELSE <<>>,
                  !.rendering = IF how = "ok" THEN h[i].rendering ELSE <<>>]

LowestFree == CHOOSE i \in Slots : ~Active(i) /\ \A j \in Slots : ~Active(j) => i <= j

\* the invocation that starts with this text retries the last invocation:
\* nothing is in progress, and the invocation before it (the one whose slot
\* it takes) failed with the same text and was not overlapped
IsRetry(userInput) ==
  /\ \A k \in Slots : ~Active(k)
  /\ h[LowestFree].pc = "done"
  /\ h[LowestFree].outcome = "failed"
  /\ ~h[LowestFree].overlapped
  /\ h[LowestFree].userInput = userInput

\* InteractiveChatModal.handleSend up to its first await (renderConversation),
\* called by the Enter key of the textarea or by the send button
HandleSend ==
  /\ ~closed
  /\ ~inputDisabled \/ ~sendBtnDisabled
  /\ LET userInput == Trim(inputValue)
     IN  IF userInput = <<>> \/ isLoading
           THEN UNCHANGED vars
           ELSE /\ turns < TurnsOf(mode)
                /\ \E i \in Slots : ~Active(i)
                /\ displayMessages' = Append(displayMessages, Msg("user", userInput))
                /\ messages' = Append(messages, Msg("user", userInput))
                /\ inputValue' = <<>>
                /\ h' = [j \in Slots |->
                          IF j = LowestFree
                            THEN [FreeInv EXCEPT !.pc = "render", !.userInput = userInput,
                                                 !.preM = messages, !.preD = displayMessages,
                                                 !.overlapped = \E k \in Slots : Active(k),
                                                 !.retry = IsRetry(userInput),
                                                 !.failedLenM =
                                                    IF IsRetry(userInput)
                                                      THEN h[LowestFree].failedLenM ELSE 0,
                                                 !.failedLenD =
                                                    IF IsRetry(userInput)
                                                      THEN h[LowestFree].failedLenD ELSE 0]
                          ELSE IF Active(j) THEN [h[j] EXCEPT !.overlapped = TRUE]
                          ELSE h[j]]
                /\ turns' = turns + 1
                /\ UNCHANGED << closed, notice, requests >>
                /\ UNCHANGED << uiVars, editorVars, constVars, usageHistory, savedUsage, viewMode >>

\* handleSend after renderConversation has resolved: setLoading(true), the
\* assistant placeholder, and callOpenAIWithHistoryStreaming up to its fetch
RenderDone(i) ==
  /\ h[i].pc = "render"
  /\ SetLoading(TRUE)
  /\ displayMessages' = Append(displayMessages, Msg("assistant", <<>>))
  /\ h' = [h EXCEPT ![i].pc = "fetch", ![i].idx = Len(displayMessages)]
  /\ requests' = requests + 1
  /\ UNCHANGED << messages, inputValue, closed, notice, turns >>
  /\ UNCHANGED << editorVars, constVars, usageHistory, savedUsage, viewMode >>

\* renderConversation rejects (MarkdownRenderer.renderMarkdown throws): the
\* await is outside the try block, so handleSend ends there
RenderThrow(i) ==
  /\ h[i].pc = "render"
  /\ h' = [h EXCEPT ![i] = DoneInv(i, "rejected")]
  /\ UNCHANGED << messages, displayMessages, inputValue, closed, notice, requests, turns >>
  /\ UNCHANGED << uiVars, editorVars, constVars, usageHistory, savedUsage, viewMode >>

\* variant: the catch block does not pop the user message off the wire view
Rollback_NoPop(i, n) ==
  /\ notice' = n
  /\ displayMessages' = Splice(displayMessages, h[i].idx - 1, 2)
  /\ messages' = messages
  /\ inputValue' = h[i].userInput
  /\ SetLoading(FALSE)
  /\ h' = [h EXCEPT ![i] = DoneInv(i, "failed")]
  /\ UNCHANGED << closed, requests, turns >>
  /\ UNCHANGED << editorVars, constVars, usageHistory, savedUsage, viewMode >>

\* variant: the catch block removes only the assistant placeholder
Rollback_KeepsUser(i, n) ==
  /\ notice' = n
  /\ displayMessages' = Splice(displayMessages, h[i].idx, 1)
  /\ messages' = Pop(messages)
  /\ inputValue' = h[i].userInput
  /\ SetLoading(FALSE)
  /\ h' = [h EXCEPT ![i] = DoneInv(i, "failed")]
  /\ UNCHANGED << closed, requests, turns >>
  /\ UNCHANGED << editorVars, constVars, usageHistory, savedUsage, viewMode >>

\* variant: the catch block removes the user entry of the display view but
\* leaves the assistant placeholder
Rollback_KeepsPlaceholder(i, n) ==
  /\ notice' = n
  /\ displayMessages' = Splice(displayMessages, h[i].idx - 1, 1)
  /\ messages' = Pop(messages)
  /\ inputValue' = h[i].userInput
  /\ SetLoading(FALSE)
  /\ h' = [h EXCEPT ![i] = DoneInv(i, "failed")]
  /\ UNCHANGED << closed, requests, turns >>
  /\ UNCHANGED << editorVars, constVars, usageHistory, savedUsage, viewMode >>

\* variant: the failure path does not run setLoading(false)
Rollback_StaysLoading(i, n) ==
  /\ notice' = n
  /\ displayMessages' = Splice(displayMessages, h[i].idx - 1, 2)
  /\ messages' = Pop(messages)
  /\ inputValue' = h[i].userInput
  /\ h' = [h EXCEPT ![i] = DoneInv(i, "failed")]
  /\ UNCHANGED << closed, requests, turns >>
  /\ UNCHANGED << uiVars, editorVars, constVars, usageHistory, savedUsage, viewMode >>

\* the catch and finally blocks of handleSend
Rollback(i, n) ==
  /\ notice' = n
  /\ displayMessages' = Splice(displayMessages, h[i].idx - 1, 2)
  /\ messages' = Pop(messages)
  /\ inputValue' = h[i].userInput
  /\ SetLoading(FALSE)
  /\ h' = [h EXCEPT ![i] = DoneInv(i, "failed")]
  /\ UNCHANGED << closed, requests, turns >>
  /\ UNCHANGED << editorVars, constVars, usageHistory, savedUsage, viewMode >>

\* fetch resolves with an OK response that has a body reader
FetchOk(i) ==
  /\ h[i].pc = "fetch"
  /\ \E s \in StreamsOf(mode) : h' = [h EXCEPT ![i].pc = "read", ![i].rest = s, ![i].whole = s]
  /\ UNCHANGED << messages, displayMessages, inputValue, closed, notice, requests, turns >>
  /\ UNCHANGED << uiVars, editorVars, constVars, usageHistory, savedUsage, viewMode >>

\* the errors before the first read: fetch rejects, and (in stream mode) the
\* response has no body reader
FetchErrorsOf(m) ==
  IF m = "stream" THEN {"Failed to fetch", "Failed to get response reader"}
  ELSE {"Failed to fetch"}

\* fetch rejects, or the response has no body reader
FetchFail(i) ==
  /\ h[i].pc = "fetch"
  /\ \E m \in FetchErrorsOf(mode) : Rollback(i, "Error: " \o m)

\* the bodies of a response that is not OK: JSON with error.message, JSON
\* without it, and a body that is not JSON
ErrorBodies ==
  { [json |-> TRUE, message |-> "Rate limit reached"],
    [json |-> TRUE, message |-> ""],
    [json |-> FALSE, message |-> ""] }

\* the error bodies the remote serves: all of them in stream mode, the one
\* with a message otherwise
ErrorBodiesOf(m) ==
  IF m = "stream" THEN ErrorBodies ELSE { b \in ErrorBodies : b.json /\ b.message # "" }

\* fetch resolves with a response that is not OK: the client awaits
\* response.json()
FetchNotOk(i) ==
  /\ h[i].pc = "fetch"
  /\ \E b \in ErrorBodiesOf(mode) : h' = [h EXCEPT ![i].pc = "errbody", ![i].errBody = b]
  /\ UNCHANGED << messages, displayMessages, inputValue, closed, notice, requests, turns >>
  /\ UNCHANGED << uiVars, editorVars, constVars, usageHistory, savedUsage, viewMode >>

\* variant: the remote message is not put into the error
ErrorMessage_Generic(b) ==
  IF ~b.json THEN "Unexpected token" ELSE "OpenAI API Error"

\* the message of the error thrown for a response that is not OK:
\* errorData.error?.message || 'OpenAI API Error', or the SyntaxError of
\* response.json()
ErrorMessage(b) ==
  IF ~b.json THEN "Unexpected token"
  ELSE IF b.message # "" THEN b.message
  ELSE "OpenAI API Error"

\* response.json() of the error response settles and the client throws
ErrorBody(i) ==
  /\ h[i].pc = "errbody"
  /\ Rollback(i, "Error: " \o ErrorMessage(h[i].errBody))

\* variant: the sink assigns the delta instead of appending it
SinkApply_Overwrite(disp, idx, deltas) ==
  IF idx + 1 <= Len(disp) /\ deltas # <<>>
    THEN [disp EXCEPT ![idx + 1].content = deltas[Len(deltas)]]
    ELSE disp

\* the async sink handed to the client, up to its first await
SinkApply(disp, idx, deltas) ==
  IF idx + 1 <= Len(disp)
    THEN [disp EXCEPT ![idx + 1].content = @ \o Concat(deltas)]
    ELSE disp

\* MarkdownRenderer.renderMarkdown(text, contentEl, ...): the child it puts
\* into the element
Rendered(text) == [tag |-> "p", text |-> text]

\* the texts the sinks of one chunk hand to the renderer: the content of
\* the assistant entry after each delta
SinkTexts(disp, idx, deltas) ==
  IF idx + 1 <= Len(disp)
    THEN [n \in 1..Len(deltas) |-> disp[idx + 1].content \o Concat(SubSeq(deltas, 1, n))]
    ELSE <<>>

\* contentEl.empty() of each sink of a chunk, and the renderings that are
\* put into the element before the next statement runs
SinkContent(contentEl, texts, landed) ==
  IF texts = <<>> THEN contentEl
  ELSE IF landed THEN <<Rendered(texts[Len(texts)])>>
  ELSE <<>>

\* the renderings still outstanding after the sinks of a chunk have reached
\* their await
SinkRendering(rendering, texts, landed) ==
  IF landed THEN rendering ELSE rendering \o texts

\* reader.read() resolves with a chunk: one pass of the while loop
ReadChunk(i) ==
  /\ h[i].pc = "read"
  /\ \E k \in ChunkSizes(mode, h[i].rest), landed \in RenderLandings(mode) :
       LET chunk == SubSeq(h[i].rest, 1, k)
           lines == ChunkLines(h[i].buffer, chunk)
           deltas == LineDeltas(lines)
           texts == SinkTexts(displayMessages, h[i].idx, deltas)
       IN  IF \E n \in 1..Len(lines) : LineAborts(lines[n])
             THEN Rollback(i, "Error: parse")
             ELSE /\ h' = [h EXCEPT ![i].rest = SubSeq(h[i].rest, k + 1, Len(h[i].rest)),
                                    ![i].buffer = ChunkRest(h[i].buffer, chunk),
                                    ![i].fullText = @ \o Concat(deltas),
                                    ![i].sinkDeltas = @ \o deltas,
                                    ![i].usageData = @ \/ LinesHaveUsage(lines),
                                    ![i].partial = @ \/ ChunkRest(h[i].buffer, chunk) # <<>>,
                                    ![i].contentEl = SinkContent(@, texts, landed),
                                    ![i].rendering = SinkRendering(@, texts, landed)]
                  /\ displayMessages' = SinkApply(displayMessages, h[i].idx, deltas)
                  /\ UNCHANGED << messages, inputValue, closed, notice, requests, turns >>
                  /\ UNCHANGED << uiVars, editorVars, constVars, usageHistory, savedUsage, viewMode >>

\* reader.read() resolves with done: the client returns and handleSend
\* appends the assistant message and runs its finally block
ReadDone(i) ==
  /\ h[i].pc = "read"
  /\ h[i].rest = <<>>
  /\ usageHistory' = Append(usageHistory,
                            StreamUsageRecord(Calendar[now], model, h[i].usageData,
                                              messages, h[i].fullText))
  /\ savedUsage' = usageHistory'
  /\ messages' = Append(messages, Msg("assistant", h[i].fullText))
  /\ SetLoading(FALSE)
  /\ h' = [h EXCEPT ![i] = DoneInv(i, "ok")]
  /\ UNCHANGED << displayMessages, inputValue, closed, notice, requests, turns >>
  /\ UNCHANGED << editorVars, constVars, viewMode >>

\* a rendering that a sink awaits is put into the message element, whether
\* the turn is still streaming or has succeeded meanwhile
SinkRendered(i) ==
  /\ h[i].rendering # <<>>
  /\ \E n \in 1..Len(h[i].rendering) :
       h' = [h EXCEPT ![i].contentEl = Append(@, Rendered(h[i].rendering[n])),
                      ![i].rendering = SubSeq(@, 1, n - 1) \o SubSeq(@, n + 1, Len(@))]
  /\ UNCHANGED << messages, displayMessages, inputValue, closed, notice, requests, turns >>
  /\ UNCHANGED << uiVars, editorVars, constVars, usageHistory, savedUsage, viewMode >>

\* reader.read() rejects
ReadError(i) ==
  /\ h[i].pc = "read"
  /\ Rollback(i, "Error: read")

\* InteractiveChatModal.onClose: the content is emptied and the view goes
\* back to reading mode when the session was opened from it
OnClose ==
  /\ closed' = TRUE
  /\ viewMode' = IF readingModeInfo THEN "preview" ELSE viewMode

\* variant: every entry gets its own number
RenderTranscript_PerEntry(sel, disp) ==
  << [tag |-> "Context", num |-> 0, content |-> sel] >>
  \o [p \in 1..Len(disp) |->
        [tag |-> IF disp[p].role = "user" THEN "Q" ELSE "A",
         num |-> p,
         content |-> disp[p].content]]

\* the conversationText that handleInsertAndClose builds
RenderTranscript(sel, disp) ==
  << [tag |-> "Context", num |-> 0, content |-> sel] >>
  \o [p \in 1..Len(disp) |->
        [tag |-> IF disp[p].role = "user" THEN "Q" ELSE "A",
         num |-> ((p - 1) \div 2) + 1,
         content |-> disp[p].content]]

\* variant: no check for an empty display view
HandleInsertAndClose_NoEmptyCheck ==
  /\ ~closed
  /\ ~insertBtnDisabled
  /\ doc' = Append(doc, RenderTranscript(selectedText, displayMessages))
  /\ cursor' = "lastLine"
  /\ exportedFrom' = displayMessages
  /\ notice' = "Inserted"
  /\ OnClose
  /\ UNCHANGED << messages, displayMessages, inputValue, h, requests, turns >>
  /\ UNCHANGED << uiVars, constVars, usageHistory, savedUsage >>

\* variant: the modal is not closed after the insertion
HandleInsertAndClose_NoClose ==
  /\ ~closed
  /\ ~insertBtnDisabled
  /\ IF Len(displayMessages) = 0
       THEN /\ notice' = "NoHistory"
            /\ UNCHANGED << editorVars >>
       ELSE /\ doc' = Append(doc, RenderTranscript(selectedText, displayMessages))
            /\ cursor' = "lastLine"
            /\ exportedFrom' = displayMessages
            /\ notice' = "Inserted"
  /\ UNCHANGED << messages, displayMessages, inputValue, closed, h, requests, turns >>
  /\ UNCHANGED << uiVars, constVars, usageHistory, savedUsage, viewMode >>

\* InteractiveChatModal.handleInsertAndClose, called by the insert button
HandleInsertAndClose ==
  /\ ~closed
  /\ ~insertBtnDisabled
  /\ IF Len(displayMessages) = 0
       THEN /\ notice' = "NoHistory"
            /\ UNCHANGED << closed, viewMode, editorVars >>
       ELSE /\ doc' = Append(doc, RenderTranscript(selectedText, displayMessages))
            /\ cursor' = "lastLine"
            /\ exportedFrom' = displayMessages
            /\ notice' = "Inserted"
            /\ OnClose
  /\ UNCHANGED << messages, displayMessages, inputValue, h, requests, turns >>
  /\ UNCHANGED << uiVars, constVars, usageHistory, savedUsage >>

\* the cancel button (or any other Modal.close): onClose empties contentEl
Cancel ==
  /\ ~closed
  /\ OnClose
  /\ UNCHANGED << messages, displayMessages, inputValue, notice, h, requests, turns >>
  /\ UNCHANGED << uiVars, editorVars, constVars, usageHistory, savedUsage >>

\* ------------------------------------------- the commands of the plugin
MaxAsks == 1       \* askChatGPT invocations in one behaviour

Models == { "gpt-4o", "gpt-4o-mini", "my-model" }

\* the editor selection and the clipboard when a command is invoked: a
\* selection, or a blank selection with a clipboard that cannot be read, is
\* blank, or holds text
Sources ==
  { [selection |-> <<"s">>, clipboard |-> [ok |-> TRUE, text |-> <<>>]],
    [selection |-> <<" ">>, clipboard |-> [ok |-> FALSE, text |-> <<>>]],
    [selection |-> <<" ">>, clipboard |-> [ok |-> TRUE, text |-> <<" ">>]],
    [selection |-> <<" ">>, clipboard |-> [ok |-> TRUE, text |-> <<"k">>]] }

\* the text the floating button passes to askChatGPTCustom; <<>> when the
\* command is invoked without it
CachedTexts == { <<>>, <<"c", "\n", "c">> }

\* the note in the editor when askChatGPT is invoked: paragraphs, one of
\* which holds the selection
MaxNotes == 1      \* paragraphs of the note besides the selected one

Paragraph(tag) ==
  << [tag |-> tag, num |-> 0,
      content |-> IF tag = "Selection" THEN <<"s">> ELSE <<"n">>] >>

Documents ==
  { [n \in DOMAIN tags |-> Paragraph(tags[n])] :
      tags \in { t \in UNION { [1..n -> {"Selection", "Note"}] : n \in 1..(MaxNotes + 1) } :
                   Cardinality({ n \in DOMAIN t : t[n] = "Selection" }) = 1 } }

\* the paragraph in which the selection ends
SelectionEnd(d) == CHOOSE n \in 1..Len(d) : d[n][1].tag = "Selection"

\* the text askChatGPT inserts at the end of the document
AnswerBlock(question, response) ==
  << [tag |-> "Question", num |-> 0, content |-> question],
     [tag |-> "ChatGPT", num |-> 0, content |-> response] >>

\* variant: the constructor keeps only the first character of the text
OpenSession_Truncated(text, wasInReadingMode) ==
  /\ selectedText' = text
  /\ messages' = << Msg("system", SystemPrompt),
                    Msg("system", ContextHeader \o SubSeq(text, 1, 1)) >>
  /\ displayMessages' = <<>>
  /\ inputValue' = <<>>
  /\ SetLoading(FALSE)
  /\ closed' = FALSE
  /\ readingModeInfo' = wasInReadingMode
  /\ sessions' = sessions + 1

\* the InteractiveChatModal that askChatGPTCustom constructs and opens
OpenSession(text, wasInReadingMode) ==
  /\ selectedText' = text
  /\ messages' = << Msg("system", SystemPrompt), Msg("system", ContextHeader \o text) >>
  /\ displayMessages' = <<>>
  /\ inputValue' = <<>>
  /\ SetLoading(FALSE)
  /\ closed' = FALSE
  /\ readingModeInfo' = wasInReadingMode
  /\ sessions' = sessions + 1

\* variant: the API key is checked only after the request was sent
AskStart_LateKeyCheck(kind, cached) ==
  /\ ask.pc = "idle"
  /\ kind = "ask" => ask.count < MaxAsks
  /\ kind = "custom" => sessions = 0
  /\ kind = "ask" => cached = <<>>
  /\ LET wasInReadingMode == viewMode = "preview"
         first == IF kind = "custom" /\ cached # <<>> THEN cached ELSE selection
         fromClipboard == Trim(first) = <<>>
         text == IF fromClipboard THEN clipboard.text ELSE first
         started == [ask EXCEPT !.count = IF kind = "ask" THEN @ + 1 ELSE @]
         Stop(n) ==
           /\ notice' = n
           /\ ask' = started
           /\ UNCHANGED << selectedText, messages, displayMessages, inputValue, uiVars,
                           closed, readingModeInfo, sessions, requests >>
     IN  /\ viewMode' = "source"
         /\ IF fromClipboard /\ ~clipboard.ok
              THEN Stop("Please select text first")
            ELSE IF fromClipboard /\ Trim(clipboard.text) = <<>>
              THEN Stop("Please select text or copy it to clipboard first")
            ELSE IF kind = "ask"
              THEN /\ notice' = "Asking ChatGPT..."
                   /\ requests' = requests + 1
                   /\ ask' = [started EXCEPT !.pc = "call", !.text = text,
                                             !.wasInReadingMode = wasInReadingMode]
                   /\ UNCHANGED << selectedText, messages, displayMessages, inputValue,
                                   uiVars, closed, readingModeInfo, sessions >>
            ELSE IF apiKey = ""
              THEN Stop("Please set your OpenAI API key in settings")
            ELSE /\ OpenSession(text, wasInReadingMode)
                 /\ notice' = IF fromClipboard THEN "Using text from clipboard" ELSE notice
                 /\ ask' = started
                 /\ UNCHANGED requests
  /\ UNCHANGED << mode, editorVars, h, turns, usageHistory, savedUsage, model, apiKey, now,
                  selection, clipboard, tab >>

\* askChatGPT (kind "ask") and askChatGPTCustom (kind "custom") from the
\* command to the first await after the guards: the switch out of reading
\* mode, the text from selection, cached text or clipboard, the API key
\* check, and then the request of callOpenAI or the session.  The model
\* follows one session object, so a second session is not constructed.
AskStart(kind, cached) ==
  /\ ask.pc = "idle"
  /\ kind = "ask" => ask.count < MaxAsks
  /\ kind = "custom" => sessions = 0
  /\ kind = "ask" => cached = <<>>
  /\ LET wasInReadingMode == viewMode = "preview"
         first == IF kind = "custom" /\ cached # <<>> THEN cached ELSE selection
         fromClipboard == Trim(first) = <<>>
         text == IF fromClipboard THEN clipboard.text ELSE first
         started == [ask EXCEPT !.count = IF kind = "ask" THEN @ + 1 ELSE @]
         Stop(n) ==
           /\ notice' = n
           /\ ask' = started
           /\ UNCHANGED << selectedText, messages, displayMessages, inputValue, uiVars,
                           closed, readingModeInfo, sessions, requests >>
     IN  /\ viewMode' = "source"
         /\ IF fromClipboard /\ ~clipboard.ok
              THEN Stop("Please select text first")
            ELSE IF fromClipboard /\ Trim(clipboard.text) = <<>>
              THEN Stop("Please select text or copy it to clipboard first")
            ELSE IF apiKey = ""
              THEN Stop("Please set your OpenAI API key in settings")
            ELSE IF kind = "ask"
              THEN /\ notice' = "Asking ChatGPT..."
                   /\ requests' = requests + 1
                   /\ ask' = [started EXCEPT !.pc = "call", !.text = text,
                                             !.wasInReadingMode = wasInReadingMode]
                   /\ UNCHANGED << selectedText, messages, displayMessages, inputValue,
                                   uiVars, closed, readingModeInfo, sessions >>
            ELSE /\ OpenSession(text, wasInReadingMode)
                 /\ notice' = IF fromClipboard THEN "Using text from clipboard" ELSE notice
                 /\ ask' = started
                 /\ UNCHANGED requests
  /\ UNCHANGED << mode, editorVars, h, turns, usageHistory, savedUsage, model, apiKey, now,
                  selection, clipboard, tab >>

\* the command and the context menu entry "Ask ChatGPT"
AskChatGPT == AskStart("ask", <<>>)

\* the command "Ask ChatGPT (custom prompt)" and the floating button
AskChatGPTCustom == \E cached \in CachedTexts : AskStart("custom", cached)

\* requestUrl of callOpenAI settles
AskResponse ==
  /\ ask.pc = "call"
  /\ \E r \in ResponsesOf(mode) : ask' = [ask EXCEPT !.pc = "got", !.resp = r]
  /\ UNCHANGED << mode, selectedText, messages, displayMessages, inputValue, uiVars,
                  closed, notice, editorVars, h, requests, turns, usageHistory, savedUsage, model,
                  apiKey, now, viewMode, readingModeInfo, sessions, selection,
                  clipboard, tab >>

\* callOpenAI after requestUrl, and the rest of askChatGPT: the answer is
\* inserted at the end of the document or the error is shown, and the view
\* goes back to reading mode
AskFinish ==
  /\ ask.pc = "got"
  /\ LET res == CallOpenAI(ask.resp)
     IN  /\ usageHistory' =
              IF res.recorded
                THEN Append(usageHistory,
                            UsageRecord(Calendar[now], model, PromptTokensOf(ask.resp.usage),
                                        CompletionTokensOf(ask.resp.usage)))
                ELSE usageHistory
         /\ savedUsage' = IF res.recorded THEN usageHistory' ELSE savedUsage
         /\ IF res.ok
              THEN /\ doc' = Append(doc, AnswerBlock(ask.text, res.text))
                   /\ cursor' = "lastLine"
                   /\ notice' = "Response inserted!"
              ELSE /\ notice' = "Error: " \o res.message
                   /\ UNCHANGED << doc, cursor >>
  /\ viewMode' = IF ask.wasInReadingMode THEN "preview" ELSE viewMode
  /\ ask' = [ask EXCEPT !.pc = "idle", !.resp = NoResponse, !.text = <<>>,
                        !.wasInReadingMode = FALSE]
  /\ UNCHANGED << mode, selectedText, messages, displayMessages, inputValue, uiVars,
                  closed, exportedFrom, h, requests, turns, model, apiKey, now,
                  readingModeInfo, sessions, selection, clipboard, tab >>

\* time passes into the next date of the calendar
Tick ==
  /\ now < Len(Calendar)
  /\ now' = now + 1
  /\ UNCHANGED << mode, selectedText, messages, displayMessages, inputValue, uiVars,
                  closed, notice, editorVars, h, requests, turns, usageHistory, savedUsage, model,
                  apiKey, viewMode, readingModeInfo, sessions, selection, clipboard,
                  ask, tab >>

\* ChatGPTSettingTab.display: displayUsageStats captures the current month
DisplaySettings ==
  /\ tab' = [shown |-> TRUE, currentMonth |-> Calendar[now].month,
             currentYear |-> Calendar[now].year]
  /\ tab' # tab
  /\ UNCHANGED << mode, selectedText, messages, displayMessages, inputValue, uiVars,
                  closed, notice, editorVars, h, requests, turns, usageHistory, savedUsage, model,
                  apiKey, now, viewMode, readingModeInfo, sessions, selection,
                  clipboard, ask >>

\* variant: the filter compares the month only
KeptByReset_MonthOnly(r) == r.date.month # tab.currentMonth

\* the records the reset button keeps
KeptByReset(r) ==
  r.date.month # tab.currentMonth \/ r.date.year # tab.currentYear

\* variant: the reset button empties the log
ResetUsage_All ==
  /\ tab.shown
  /\ usageHistory' = <<>>
  /\ savedUsage' = usageHistory'
  /\ notice' = "Usage history reset"
  /\ tab' = [shown |-> TRUE, currentMonth |-> Calendar[now].month,
             currentYear |-> Calendar[now].year]
  /\ UNCHANGED << mode, selectedText, messages, displayMessages, inputValue, uiVars,
                  closed, editorVars, h, requests, turns, model, apiKey, now, viewMode,
                  readingModeInfo, sessions, selection, clipboard, ask >>

\* the reset button of the settings tab: the filter, saveSettings, the
\* notice and the redisplay
ResetUsage ==
  /\ tab.shown
  /\ usageHistory' = SelectSeq(usageHistory, KeptByReset)
  /\ savedUsage' = usageHistory'
  /\ notice' = "Usage history reset"
  /\ tab' = [shown |-> TRUE, currentMonth |-> Calendar[now].month,
             currentYear |-> Calendar[now].year]
  /\ UNCHANGED << mode, selectedText, messages, displayMessages, inputValue, uiVars,
                  closed, editorVars, h, requests, turns, model, apiKey, now, viewMode,
                  readingModeInfo, sessions, selection, clipboard, ask >>

\* the plugin after loadSettings, with no session open
InitPlugin ==
  /\ mode = "plugin"
  /\ selectedText = <<>>
  /\ messages = <<>>
  /\ displayMessages = <<>>
  /\ inputValue = <<>>
  /\ isLoading = FALSE
  /\ sendBtnDisabled = FALSE
  /\ insertBtnDisabled = FALSE
  /\ inputDisabled = FALSE
  /\ closed = TRUE
  /\ notice = "None"
  /\ doc = <<>>
  /\ cursor = "user"
  /\ exportedFrom = <<>>
  /\ h = [i \in Slots |-> FreeInv]
  /\ requests = 0
  /\ turns = 0
  /\ sessions = 0
  /\ readingModeInfo = FALSE
  /\ usageHistory = <<>>
  /\ savedUsage = <<>>
  /\ model = "gpt-4o"
  /\ apiKey \in {"", "sk"}
  /\ now = 1
  /\ viewMode \in {"preview", "source"}
  /\ \E src \in Sources : selection = src.selection /\ clipboard = src.clipboard
  /\ ask = IdleAsk
  /\ tab = HiddenTab

\* the plugin at rest with an API key and a selection: any configured model,
\* view mode and note in call mode, the defaults and no note text in usage
\* mode
InitReady(m) ==
  /\ mode = m
  /\ selectedText = <<>>
  /\ messages = <<>>
  /\ displayMessages = <<>>
  /\ inputValue = <<>>
  /\ isLoading = FALSE
  /\ sendBtnDisabled = FALSE
  /\ insertBtnDisabled = FALSE
  /\ inputDisabled = FALSE
  /\ closed = TRUE
  /\ notice = "None"
  /\ doc \in IF mode = "call" THEN Documents ELSE {<<>>}
  /\ cursor = "user"
  /\ exportedFrom = <<>>
  /\ h = [i \in Slots |-> FreeInv]
  /\ requests = 0
  /\ turns = 0
  /\ sessions = 0
  /\ readingModeInfo = FALSE
  /\ usageHistory = <<>>
  /\ savedUsage = <<>>
  /\ model \in IF mode = "call" THEN Models ELSE {"gpt-4o"}
  /\ apiKey = "sk"
  /\ now = 1
  /\ viewMode \in IF mode = "call" THEN {"preview", "source"} ELSE {"source"}
  /\ selection = <<"s">>
  /\ clipboard = [ok |-> TRUE, text |-> <<>>]
  /\ ask = IdleAsk
  /\ tab = HiddenTab

InitCall == InitReady("call")

InitUsage == InitReady("usage")

Next ==
  \/ TypeInput
  \/ HandleSend
  \/ HandleInsertAndClose
  \/ Cancel
  \/ \E i \in Slots : RenderDone(i)
  \/ \E i \in Slots : RenderThrow(i)
  \/ \E i \in Slots : FetchOk(i)
  \/ \E i \in Slots : FetchFail(i)
  \/ \E i \in Slots : FetchNotOk(i)
  \/ \E i \in Slots : ErrorBody(i)
  \/ \E i \in Slots : ReadChunk(i)
  \/ \E i \in Slots : ReadDone(i)
  \/ \E i \in Slots : ReadError(i)

Spec == Init /\ [][Next]_vars

SpecStream == InitStream /\ [][Next]_vars

\* one session whose streamed answer is followed into its message element
NextRender ==
  \/ Next
  \/ \E i \in Slots : SinkRendered(i)

SpecRender == InitRender /\ [][NextRender]_vars

\* every promise of the transport that handleSend awaits settles: fetch
\* resolves or rejects, response.json() settles, and reader.read() delivers
\* a chunk, reports done or rejects
TransportStep(i) ==
  \/ FetchFail(i) \/ FetchNotOk(i) \/ FetchOk(i)
  \/ ErrorBody(i)
  \/ ReadError(i) \/ ReadDone(i) \/ ReadChunk(i)

TransportSettles == \A i \in Slots : WF_vars(TransportStep(i))

SpecLive == InitLive /\ [][Next]_vars /\ TransportSettles

\* the whole plugin within one month: the commands, one session and the
\* settings tab, from every configuration and source of text
NextPlugin ==
  \/ Next
  \/ AskChatGPT
  \/ AskChatGPTCustom
  \/ AskResponse
  \/ AskFinish
  \/ DisplaySettings
  \/ ResetUsage

SpecPlugin == InitPlugin /\ [][NextPlugin]_vars

\* the whole plugin over the months of the calendar, from one configuration
NextUsage ==
  \/ NextPlugin
  \/ Tick

SpecUsage == InitUsage /\ [][NextUsage]_vars

\* the single-shot call alone, against every response
NextCall ==
  \/ AskChatGPT
  \/ AskResponse
  \/ AskFinish

SpecCall == InitCall /\ [][NextCall]_vars

TypeOK ==
  /\ mode \in {"session", "stream", "plugin", "usage", "call", "render", "live"}
  /\ isLoading \in BOOLEAN
  /\ closed \in BOOLEAN
  /\ turns \in 0..MaxTurns
  /\ \A i \in Slots : h[i].pc \in {"free", "render", "fetch", "errbody", "read", "done"}

\* ==================================================================
\* Properties
\* ==================================================================

\* a handleSend invocation ends in this step
Completes(i) == Active(i) /\ h'[i].pc = "done"

\* no other handleSend invocation was in progress during invocation i
Alone(i) == ~h[i].overlapped

LastOf(s) == s[Len(s)]

\* C1: at most one turn is in flight per session: while a handleSend is
\* suspended, a second handleSend is a no-op, so no two invocations are ever
\* in progress together.
C1_AtMostOneTurnInFlight == Cardinality({ i \in Slots : Active(i) }) <= 1

\* C2: a handleSend that starts with no turn in flight and runs to completion
\* (no other handleSend overlapping it) leaves the wire view two entries
\* longer than before it, a user entry followed by an assistant entry, when
\* the streaming call succeeds, and exactly as long as before when it fails.
C2_WireGrowth ==
  [][\A i \in Slots :
       (Completes(i) /\ Alone(i)) =>
          /\ h'[i].outcome = "ok" =>
               /\ Len(messages') = Len(h[i].preM) + 2
               /\ messages'[Len(messages') - 1].role = "user"
               /\ LastOf(messages').role = "assistant"
          /\ h'[i].outcome = "failed" => Len(messages') = Len(h[i].preM)]_vars

C2_Witness ==
  /\ notice = "Error: read"
  /\ \E i \in Slots : h[i].pc = "done" /\ h[i].outcome = "ok" /\ ~h[i].overlapped
  /\ Len(messages) = 4

C4_DisplayIsProjection ==
  \A p \in 1..Len(displayMessages) :
     /\ p + 2 <= Len(messages)
     /\ displayMessages[p] = messages[p + 2]
     /\ displayMessages[p].role # "system"

\* C5: a session never goes from awaiting-response to closed: while a turn
\* is awaited (isLoading) no step closes the session.
C5_NoCloseWhileLoading == [][isLoading => closed' = closed]_vars

\* C6: export is terminal: once the transcript has been handed to the
\* editor, no handleSend is accepted any more (none starts, none appends a
\* user entry).
C6_ExportTerminal ==
  [][doc # <<>> =>
       /\ turns' = turns
       /\ \A i \in Slots : ~Active(i) => ~Active(i)']_vars

C6_Witness ==
  /\ doc # <<>>
  /\ closed
  /\ Trim(inputValue) # <<>>
  /\ ~isLoading
  /\ turns < MaxTurns
  /\ \A i \in Slots : ~Active(i)

\* C7: handleInsertAndClose on an empty display view changes neither the
\* document nor the cursor, shows the no-history notice, and leaves the
\* session open with both views unchanged.
C7_EmptyExportRejected ==
  [][/\ Len(displayMessages) = 0 => (doc' = doc /\ cursor' = cursor)
     /\ (HandleInsertAndClose /\ Len(displayMessages) = 0) =>
          /\ notice' = "NoHistory"
          /\ closed' = closed
          /\ messages' = messages
          /\ displayMessages' = displayMessages]_vars

C7_Witness ==
  /\ notice = "NoHistory"
  /\ Len(displayMessages) = 0
  /\ doc = <<>>
  /\ ~closed

Alternates(d) ==
  \A p \in 1..Len(d) : d[p].role = (IF p % 2 = 1 THEN "user" ELSE "assistant")

\* C8: for an alternating display view, the exported block is the context
\* block followed by the entries in display order, the k-th pair labelled
\* Qk and Ak; a trailing user entry without reply carries its pair's number.
C8_ExportNumbering ==
  (doc # <<>> /\ Alternates(exportedFrom)) =>
     LET b == LastOf(doc)
         n == Len(exportedFrom)
     IN  /\ Len(b) = n + 1
         /\ b[1] = [tag |-> "Context", num |-> 0, content |-> selectedText]
         /\ \A k \in 1..((n + 1) \div 2) :
              /\ b[2 * k] = [tag |-> "Q", num |-> k, content |-> exportedFrom[2 * k - 1].content]
              /\ 2 * k <= n =>
                   b[2 * k + 1] = [tag |-> "A", num |-> k, content |-> exportedFrom[2 * k].content]

C8_Witness ==
  /\ doc # <<>>
  /\ Len(exportedFrom) = 3
  /\ Alternates(exportedFrom)

\* C9: for every successful turn the deltas handed to the sink, concatenated
\* in the order of the sink calls, are the content of the assistant message
\* appended to the wire view (fullText) and, for a turn no other handleSend
\* overlaps, the content of the turn's assistant display entry.
C9_OrderPreserving ==
  [][\A i \in Slots :
       (Completes(i) /\ h'[i].outcome = "ok") =>
          /\ LastOf(messages') = Msg("assistant", Concat(h[i].sinkDeltas))
          /\ Alone(i) => LastOf(displayMessages') = Msg("assistant", Concat(h[i].sinkDeltas))]_vars

C9_Witness ==
  /\ \E i \in Slots : h[i].pc = "done" /\ h[i].outcome = "ok"
  /\ LastOf(messages) = Msg("assistant", <<"a", "b">>)
  /\ LastOf(displayMessages) = Msg("assistant", <<"a", "b">>)

\* C10: however the bytes of a stream of newline-terminated lines are split
\* into chunks, the sink has received, when the stream is exhausted, the
\* deltas of the unsplit stream, each once and in order; before that, a
\* prefix of them.
C10_SplitInvariant ==
  \A i \in Slots :
     h[i].pc = "read" =>
        LET unsplit == LineDeltas(ChunkLines(<<>>, h[i].whole))
        IN  /\ Len(h[i].sinkDeltas) <= Len(unsplit)
            /\ h[i].sinkDeltas = SubSeq(unsplit, 1, Len(h[i].sinkDeltas))
            /\ h[i].rest = <<>> => h[i].sinkDeltas = unsplit

C10_Witness ==
  \E i \in Slots :
     /\ h[i].pc = "read"
     /\ h[i].rest = <<>>
     /\ h[i].partial
     /\ h[i].sinkDeltas = << <<"a">>, <<"b">> >>

\* a line that is a text-delta frame: 'data: ' and the JSON object {delta: text}
IsDeltaLine(line) ==
  /\ Len(line) >= 5
  /\ SubSeq(line, 1, 4) = <<"d", ":", "{", "D">>
  /\ line[Len(line)] = "}"
  /\ \A k \in 5..(Len(line) - 1) : line[k] \in PayloadChars

DeltaOfLine(line) == SubSeq(line, 5, Len(line) - 1)

RECURSIVE ValidDeltas(_)
ValidDeltas(lines) ==
  IF lines = <<>> THEN <<>>
  ELSE (IF IsDeltaLine(Head(lines)) THEN <<DeltaOfLine(Head(lines))>> ELSE <<>>)
       \o ValidDeltas(Tail(lines))

\* C11: a line that is not a frame the client knows (invalid JSON after the
\* prefix, or another shape) invokes no sink and raises no error: the only
\* failure while reading is a failed read of the transport, and when the
\* stream is exhausted the sink has received exactly the deltas of the valid
\* text-delta lines, in order.
C11_MalformedSkipped ==
  [][\A i \in Slots :
       h[i].pc = "read" =>
          /\ (h'[i].pc = "done" /\ h'[i].outcome = "failed") => notice' = "Error: read"
          /\ (h'[i].pc = "read" /\ h'[i].rest = <<>>) =>
                h'[i].sinkDeltas = ValidDeltas(SplitNL(h'[i].whole, <<>>))]_vars

C11_Witness ==
  \E i \in Slots :
     /\ h[i].pc = "read"
     /\ h[i].rest = <<>>
     /\ h[i].whole \in TolerantStreams
     /\ h[i].sinkDeltas = << <<"a">>, <<"b">> >>
     /\ notice = "None"

\* C12: when the remote answers the streaming request with a non-success
\* status, the call fails: the turn is rolled back with the error notice,
\* which carries the remote error message when the body has one, and the sink
\* has not been invoked.
C12_NonOkFailsBeforeSink ==
  [][\A i \in Slots :
       h[i].pc = "errbody" =>
          /\ h[i].sinkDeltas = <<>> /\ h[i].fullText = <<>>
          /\ h'[i].pc \in {"errbody", "done"}
          /\ h'[i].pc = "done" =>
               /\ h'[i].outcome = "failed"
               /\ (h[i].errBody.json /\ h[i].errBody.message # "") =>
                     notice' = "Error: " \o h[i].errBody.message]_vars

C12_Witness ==
  /\ notice = "Error: Rate limit reached"
  /\ \E i \in Slots : h[i].pc = "done" /\ h[i].outcome = "failed"
  /\ requests = 1

\* the single-shot call of askChatGPT ends in this step
CallEnds == ask.pc = "got" /\ ask'.pc = "idle"

\* C13: a call appends exactly one usage record when it completes
\* successfully and none when it fails, the single-shot call and the
\* streaming call alike.
C13_UsageOnSuccessOnly ==
  [][/\ CallEnds =>
          Len(usageHistory') =
            Len(usageHistory) + (IF notice' = "Response inserted!" THEN 1 ELSE 0)
     /\ \A i \in Slots :
          Completes(i) =>
            Len(usageHistory') =
              Len(usageHistory) + (IF h'[i].outcome = "ok" THEN 1 ELSE 0)]_vars

UsageLine == <<"d", ":", "{", "u", "}">>

\* a usage frame is among the lines of a stream
HasUsageFrame(stream) ==
  \E k \in 1..Len(SplitNL(stream, <<>>)) : SplitNL(stream, <<>>)[k] = UsageLine

\* p is the least integer with 4 * p >= n
IsCeilOfQuarter(p, n) == 4 * p >= n /\ 4 * (p - 1) < n

\* C14: a streaming call that ends successfully appends one usage record;
\* without a usage frame its prompt tokens are a quarter of the length of the
\* serialized message history and its completion tokens a quarter of the
\* length of the accumulated answer, both rounded up; with a usage frame it
\* carries the counts of that frame.
C14_EstimateWithoutUsageFrame ==
  [][\A i \in Slots :
       (h[i].pc = "read" /\ h'[i].pc = "done" /\ h'[i].outcome = "ok") =>
          /\ Len(usageHistory') = Len(usageHistory) + 1
          /\ SubSeq(usageHistory', 1, Len(usageHistory)) = usageHistory
          /\ LET r == usageHistory'[Len(usageHistory')]
             IN  IF HasUsageFrame(h[i].whole)
                   THEN r.promptTokens = 7 /\ r.completionTokens = 3
                   ELSE /\ IsCeilOfQuarter(r.promptTokens, JsonLen(messages))
                        /\ IsCeilOfQuarter(r.completionTokens, Len(h[i].fullText))]_vars

C14_Witness ==
  /\ Len(usageHistory) = 1
  /\ usageHistory[1].promptTokens = 25
  /\ usageHistory[1].completionTokens = 1
  /\ \E i \in Slots : h[i].pc = "done" /\ h[i].outcome = "ok"
  /\ LastOf(messages) = Msg("assistant", <<"a">>)

\* C15: the usage log is append-only: every step keeps the records it holds,
\* unmodified and in order, and at most appends to them.
C15_AppendOnly ==
  [][/\ Len(usageHistory') >= Len(usageHistory)
     /\ SubSeq(usageHistory', 1, Len(usageHistory)) = usageHistory]_vars

\* a record dated in the month the settings tab captured
InCapturedMonth(r) ==
  r.date.month = tab.currentMonth /\ r.date.year = tab.currentYear

NotInCapturedMonth(r) == ~InCapturedMonth(r)

\* C15 (amended): every step either keeps the records of the usage log,
\* unmodified and in order, and at most appends to them, or it is taken while
\* the settings tab is shown and removes exactly the records dated in the
\* month the tab captured, keeping the others in order.
C15_AppendOnlyExceptReset ==
  [][\/ /\ Len(usageHistory') >= Len(usageHistory)
        /\ SubSeq(usageHistory', 1, Len(usageHistory)) = usageHistory
     \/ /\ tab.shown
        /\ usageHistory' = SelectSeq(usageHistory, NotInCapturedMonth)]_vars

C15_Witness ==
  /\ notice = "Usage history reset"
  /\ Len(usageHistory) = 1
  /\ usageHistory[1].date = [year |-> 2025, month |-> 11]
  /\ tab.shown /\ tab.currentMonth = 11 /\ tab.currentYear = 2026
  /\ requests = 2

C17_AuthErrorDistinct ==
  [][(CallEnds /\ ask.resp.error.present /\ ask.resp.error.type = "invalid_api_key") =>
        \A r \in ErrorResponses :
           r.error.type # "invalid_api_key" =>
              notice' # "Error: " \o CallOpenAI(r).message]_vars

\* the content blocks of the message items of an output list, in list order
MessageBlocks(output) ==
  Concat([k \in 1..Len(output) |->
            IF output[k].type = "message" THEN output[k].content ELSE <<>>])

\* the positions of the text-bearing blocks
TextBearing(blocks) ==
  { n \in 1..Len(blocks) : blocks[n].type = "output_text" /\ blocks[n].text # <<>> }

\* C18: for a response without an error object the call returns the trimmed
\* direct text when it is not empty, otherwise the trimmed text of the first
\* text-bearing block of the message items in list order, and fails with the
\* no-response error only when there is neither.
C18_DecoderPriority ==
  [][(CallEnds /\ ~ask.resp.rejects /\ ~ask.resp.error.present) =>
        LET blocks == MessageBlocks(ask.resp.output)
            first == CHOOSE n \in TextBearing(blocks) : \A m \in TextBearing(blocks) : n <= m
            Inserted(t) ==
              /\ notice' = "Response inserted!"
              /\ Len(doc') = Len(doc) + 1
              /\ doc'[Len(doc')][2].content = t
        IN  IF ask.resp.output_text # <<>> THEN Inserted(Trim(ask.resp.output_text))
            ELSE IF TextBearing(blocks) # {} THEN Inserted(Trim(blocks[first].text))
            ELSE notice' = "Error: No response from ChatGPT" /\ doc' = doc]_vars

C18_Witness ==
  /\ notice = "Response inserted!"
  /\ Len(doc) > 1
  /\ doc[Len(doc)][2].content = <<"y">>
  /\ ask.pc = "idle"

\* C19: once a session is constructed, its wire view begins with the
\* instruction and the context block that wraps the supplied text verbatim,
\* whatever happens to the session; before the first submit the wire view
\* holds only these two and the display view is empty.
C19_SystemPrefix ==
  sessions > 0 =>
     /\ selectedText \in { <<"s">>, <<"k">>, <<"c", "\n", "c">> }
     /\ Len(messages) >= 2
     /\ messages[1] = [role |-> "system", content |-> <<"P">>]
     /\ messages[2] = [role |-> "system", content |-> <<"C", ":">> \o selectedText]
     /\ turns = 0 => Len(messages) = 2 /\ displayMessages = <<>>

C19_Witness ==
  /\ sessions = 1
  /\ selectedText = <<"c", "\n", "c">>
  /\ turns = 1
  /\ notice = "Error: Rate limit reached"
  /\ Len(messages) = 2
  /\ closed

\* neither the selection, nor the cached text, nor the clipboard has text
MissingText(cached) ==
  /\ Trim(cached) = <<>>
  /\ Trim(selection) = <<>>
  /\ ~clipboard.ok \/ Trim(clipboard.text) = <<>>

GuardNotices ==
  { "Please set your OpenAI API key in settings",
    "Please select text or copy it to clipboard first",
    "Please select text first" }

\* C20: askChatGPT and askChatGPTCustom stop before any request when the API
\* key is empty or there is no text: no request is sent and no session is
\* constructed; the notice for the missing key is not one of the notices for
\* missing text, and no failure of a call shows any of these notices.
C20_GuardsBeforeNetwork ==
  [][/\ \A kind \in {"ask", "custom"}, cached \in CachedTexts :
          AskStart(kind, cached) =>
             /\ (apiKey = "" \/ MissingText(cached)) =>
                   /\ requests' = requests
                   /\ sessions' = sessions
                   /\ closed' = closed
                   /\ ask'.pc = "idle"
             /\ MissingText(cached) =>
                   notice' \in { "Please select text or copy it to clipboard first",
                                 "Please select text first" }
             /\ (apiKey = "" /\ ~MissingText(cached)) =>
                   notice' = "Please set your OpenAI API key in settings"
     /\ (CallEnds /\ doc' = doc) => notice' \notin GuardNotices
     /\ \A i \in Slots :
          (Completes(i) /\ h'[i].outcome = "failed") => notice' \notin GuardNotices]_vars

C20_Witness ==
  /\ apiKey = ""
  /\ notice = "Please set your OpenAI API key in settings"
  /\ Trim(selection) # <<>>
  /\ requests = 0
  /\ sessions = 0

\* C21: when a turn failed and the next handleSend submits the same text and
\* succeeds (no other handleSend overlapping either), each view has the
\* length it had before the failed attempt plus two and ends in the user
\* entry with that text followed by the assistant entry.
C21_RetryLeavesNoResidue ==
  [][\A i \in Slots :
       (Completes(i) /\ Alone(i) /\ h[i].retry /\ h'[i].outcome = "ok") =>
          /\ Len(messages') = h[i].failedLenM + 2
          /\ Len(displayMessages') = h[i].failedLenD + 2
          /\ messages'[Len(messages') - 1] = [role |-> "user", content |-> h[i].userInput]
          /\ messages'[Len(messages')] = [role |-> "assistant", content |-> h[i].fullText]
          /\ displayMessages'[Len(displayMessages') - 1] =
                [role |-> "user", content |-> h[i].userInput]
          /\ displayMessages'[Len(displayMessages')] =
                [role |-> "assistant", content |-> h[i].fullText]]_vars

C21_Witness ==
  /\ \E i \in Slots : /\ h[i].pc = "done" /\ h[i].outcome = "ok"
                      /\ h[i].retry /\ ~h[i].overlapped
  /\ turns = 2
  /\ Len(messages) = 4
  /\ Len(displayMessages) = 2

\* C22: the answer of the command "Ask ChatGPT about selected text" is
\* inserted directly below the selection: whatever the note holds and
\* wherever the selection is in it, the inserted block follows the paragraph
\* in which the selection ends, and the rest of the note follows the block.
C22_InsertedBelowSelection ==
  [][(CallEnds /\ notice' = "Response inserted!") =>
        LET p == SelectionEnd(doc)
        IN  /\ Len(doc') = Len(doc) + 1
            /\ SubSeq(doc', 1, p) = SubSeq(doc, 1, p)
            /\ doc'[p + 1][1].tag = "Question"
            /\ SubSeq(doc', p + 2, Len(doc')) = SubSeq(doc, p + 1, Len(doc))]_vars

\* C23: within a turn (no other handleSend overlapping it) the message
\* element never holds more than one rendering, what it holds is the
\* rendering of the deltas accumulated up to one of them, and once the
\* stream has ended and every sink has finished it holds the rendering of
\* the complete answer.
C23_RenderedInArrivalOrder ==
  \A i \in Slots :
    (~h[i].overlapped /\ (h[i].pc = "read" \/ (h[i].pc = "done" /\ h[i].outcome = "ok"))) =>
       /\ Len(h[i].contentEl) <= 1
       /\ (h[i].pc = "read" /\ h[i].contentEl # <<>>) =>
             \E n \in 1..Len(h[i].sinkDeltas) :
                h[i].contentEl[1] = Rendered(Concat(SubSeq(h[i].sinkDeltas, 1, n)))
       /\ (h[i].pc = "done" /\ h[i].rendering = <<>> /\ h[i].fullText # <<>>) =>
             h[i].contentEl = <<Rendered(h[i].fullText)>>

\* a handleSend invocation is inside the streaming call
Awaiting(i) == h[i].pc \in {"fetch", "errbody", "read"}

ControlsEnabled == ~isLoading /\ ~sendBtnDisabled /\ ~insertBtnDisabled /\ ~inputDisabled

\* C24: provided the transport settles, a session that is loading is
\* followed by a state in which isLoading is false and the send, insert and
\* input controls are enabled; the step in which the streaming call of a
\* handleSend returns or throws leaves them so, on success and on failure
\* alike; and when no handleSend is in progress the session is not loading.
C24_LoadingEnds ==
  /\ isLoading ~> ControlsEnabled
  /\ [][\A i \in Slots : (Awaiting(i) /\ h'[i].pc = "done") => ControlsEnabled']_vars
  /\ []((\A i \in Slots : ~Active(i)) => ControlsEnabled)

C24_Witness ==
  /\ \E i \in Slots : h[i].pc = "done" /\ h[i].outcome = "failed"
  /\ \A i \in Slots : ~Active(i)
  /\ notice = "Error: read"
  /\ ControlsEnabled

\* C25: a handleSend that ends without an answer after its user entry has
\* been appended (no other handleSend overlapping it) has caught the failure:
\* both views are what they were before the submit, one error notice is
\* shown, and the invocation does not end in a rejection.
C25_FailuresContained ==
  [][\A i \in Slots :
       (Completes(i) /\ Alone(i) /\ h'[i].outcome # "ok") =>
          /\ h'[i].outcome = "failed"
          /\ messages' = h[i].preM
          /\ displayMessages' = h[i].preD
          /\ \E m \in {"Failed to fetch", "Rate limit reached", "read", "parse"} :
                notice' = "Error: " \o m]_vars

\* C26: when the transport reports done while the line buffer holds a
\* complete data frame that was not terminated with a newline, the frame is
\* still processed before the call returns: its delta is part of the answer
\* appended to the wire view, and its usage makes the record the reported one.
C26_LastFrameProcessed ==
  [][\A i \in Slots :
       (h[i].pc = "read" /\ h'[i].pc = "done" /\ h'[i].outcome = "ok") =>
          LET frame == LineFrame(h[i].buffer)
          IN  /\ frame.hasDelta =>
                   LastOf(messages').content = h[i].fullText \o frame.delta
              /\ frame.hasUsage =>
                   LastOf(usageHistory') =
                      StreamUsageRecord(Calendar[now], model, TRUE, messages, h[i].fullText)]_vars

\* C27: whenever no turn is in flight (isLoading is false and no handleSend
\* is in progress), the display view has even length and alternates user,
\* assistant, user, assistant ..., starting with a user entry.
C27_DisplayAlternatesWhenIdle ==
  (~isLoading /\ \A i \in Slots : ~Active(i)) =>
     (Len(displayMessages) % 2 = 0 /\ Alternates(displayMessages))

\* C28: once the session has been closed, neither the wire view nor the
\* display view changes again.
C28_ViewsFrozenAfterClose ==
  [][closed => (messages' = messages /\ displayMessages' = displayMessages)]_vars

\* C29: when askChatGPT or askChatGPTCustom has switched the view from
\* reading mode to source mode, the view is back in reading mode when the
\* operation ends: at an early return for missing text or a missing API key,
\* when the call has succeeded or failed, and when the chat modal is closed.
C29_ReadingModeRestored ==
  [][/\ ( /\ \E cached \in CachedTexts : AskStart("ask", cached) \/ AskStart("custom", cached)
          /\ viewMode = "preview"
          /\ ask'.pc = "idle" /\ sessions' = sessions ) => viewMode' = "preview"
     /\ (CallEnds /\ ask.wasInReadingMode) => viewMode' = "preview"
     /\ (~closed /\ closed' /\ readingModeInfo) => viewMode' = "preview"]_vars

\* C30: the reset of the settings tab removes exactly the records dated in
\* the month and year the tab captured when it was displayed: every other
\* record is present afterwards, unmodified and in the same relative order,
\* nothing else is; and the log handed to saveData is the log after the
\* removal.
C30_ResetRemovesCapturedMonth ==
  [][ResetUsage =>
        LET kept == { n \in 1..Len(usageHistory) : ~InCapturedMonth(usageHistory[n]) }
            rank(n) == Cardinality({ m \in kept : m <= n })
        IN  /\ Len(usageHistory') = Cardinality(kept)
            /\ \A n \in kept : usageHistory'[rank(n)] = usageHistory[n]
            /\ savedUsage' = usageHistory']_vars

C30_Witness ==
  /\ notice = "Usage history reset"
  /\ tab.shown /\ tab.currentMonth = 12 /\ tab.currentYear = 2025
  /\ requests = 2
  /\ Len(usageHistory) = 1
  /\ usageHistory[1].date = [year |-> 2025, month |-> 11]
  /\ savedUsage = usageHistory

====
